---- MODULE Spec2Model ----
(***************************************************************************)
(* Model of server.js: the bootstrap script that validates the environment, *)
(* runs `npx prisma generate`, verifies the generated client against the    *)
(* database, prepares the Next.js application and starts an Express         *)
(* listener with a health route and a catch-all route.                      *)
(*                                                                          *)
(* One action is one run-to-completion turn of the Node.js event loop: the  *)
(* synchronous code of a callback together with the promise continuations   *)
(* (microtasks) it triggers.  Awaited operations are in flight between two  *)
(* such turns.                                                              *)
(***************************************************************************)
EXTENDS Integers, Sequences, FiniteSets, TLC

----------------------------------------------------------------------------
(* Bounds of the model *)

\* number of HTTP requests the model lets arrive while serving
MaxRequests == 2

----------------------------------------------------------------------------
(* The process environment *)

\* an environment variable that is not set (process.env.X === undefined)
Unset == "<unset>"

\* JavaScript truthiness of an environment value: !value
Falsy(v) == v = Unset \/ v = ""

UrlValues == {Unset, "", "postgres://db"}
NodeEnvValues == {Unset, "", "production", "development"}
PortValues == {Unset, "3000", "99999"}
EngineValues == {Unset, "library"}

\* the snapshots of process.env the model starts from
Environments ==
    [DATABASE_URL : UrlValues,
     DIRECT_URL : UrlValues,
     NODE_ENV : NodeEnvValues,
     PORT : PortValues,
     PRISMA_CLIENT_ENGINE_TYPE : EngineValues,
     PATH : {"/usr/bin"}]

\* the keys of the environment that generation does not override
PassThroughKeys == {"DATABASE_URL", "DIRECT_URL", "PORT", "PATH"}

VARIABLES
    env,                \* process.env
    pc,                 \* lifecycle position of startServer
    pending,            \* awaited operations in flight
    called,             \* bootstrap steps invoked, in order
    completed,          \* awaited steps that resolved, in order
    genEnv,             \* the env option handed to execPromise
    warned,             \* console.warn('Prisma generation warnings:') ran
    dbConnOpen,         \* the verification client holds a connection
    handlersRegistered, \* process.on('SIGTERM'/'SIGINT', shutdown) ran
    listenReturned,     \* server.listen returned without throwing
    sig,                \* the signal delivered to the process, if any
    exitCode,           \* exit status, -1 while the process is alive
    exitVia,            \* how the process ended
    failed,             \* the bootstrap step that failed, if any
    caught,             \* times the catch block of startServer ran
    nHandled,           \* requests that entered the Express pipeline
    last,               \* what happened to the latest request
    inflight,           \* delegated requests not yet finished
    healthResponses     \* bodies sent by the health handler

bootVars == <<pending, called, completed, genEnv, warned, dbConnOpen>>
procVars == <<handlersRegistered, listenReturned, sig, exitCode, exitVia, failed, caught>>
reqVars == <<nHandled, last, inflight, healthResponses>>
vars == <<env, pc, bootVars, procVars, reqVars>>

----------------------------------------------------------------------------
(* Pure helpers *)

requiredEnvVars_OnlyDatabase == {"DATABASE_URL"}

requiredEnvVars_OnlyDirect == {"DIRECT_URL"}

\* const requiredEnvVars = ['DATABASE_URL', 'DIRECT_URL']
requiredEnvVars == {"DATABASE_URL", "DIRECT_URL"}

\* requiredEnvVars.filter(varName => !process.env[varName])
missingVars(e) == {v \in requiredEnvVars : Falsy(e[v])}

\* a spread written after the overrides: the configured engine type wins
generationEnv_SpreadLast(e) ==
    [e EXCEPT !.PRISMA_CLIENT_ENGINE_TYPE =
                  IF e.PRISMA_CLIENT_ENGINE_TYPE = Unset THEN "binary"
                  ELSE e.PRISMA_CLIENT_ENGINE_TYPE,
              !.NODE_ENV = IF Falsy(e.NODE_ENV) THEN "production" ELSE e.NODE_ENV]

\* { ...process.env, PRISMA_CLIENT_ENGINE_TYPE: 'binary',
\*   NODE_ENV: process.env.NODE_ENV || 'production' }
generationEnv(e) ==
    [e EXCEPT !.PRISMA_CLIENT_ENGINE_TYPE = "binary",
              !.NODE_ENV = IF Falsy(e.NODE_ENV) THEN "production" ELSE e.NODE_ENV]

\* const PORT = process.env.PORT || 8080
PORT(e) == IF Falsy(e.PORT) THEN "8080" ELSE e.PORT

\* the port number server.listen reads from its argument
portNumber(p) ==
    CASE p = "8080" -> 8080
      [] p = "3000" -> 3000
      [] p = "99999" -> 99999

\* server.listen throws synchronously on a port outside 0..65535
listenThrows(p) == portNumber(p) < 0 \/ portNumber(p) > 65535

\* rank of a lifecycle position
Rank(p) ==
    CASE p = "not_started" -> 0
      [] p = "generating" -> 1
      [] p = "connecting" -> 2
      [] p = "disconnecting" -> 3
      [] p = "preparing" -> 4
      [] p = "binding" -> 5
      [] p = "serving" -> 6
      [] p = "terminated" -> 7

----------------------------------------------------------------------------
(* Process exit *)

\* process.exit(code), or the runtime ending the process
Exit(code, via) ==
    /\ pc' = "terminated"
    /\ exitCode' = code
    /\ exitVia' = via

\* catch (error) { console.error(...); process.exit(1) } of startServer
CatchTop(step) ==
    /\ Exit(1, "catch")
    /\ failed' = step
    /\ caught' = caught + 1

NoRequest == [method |-> "", path |-> "", body |-> ""]

NoOutcome ==
    [req |-> NoRequest, handler |-> "", seenMethod |-> "", seenPath |-> "",
     middleware |-> <<>>]

Init ==
    /\ env \in Environments
    /\ pc = "not_started"
    /\ pending = {}
    /\ called = <<>>
    /\ completed = <<>>
    /\ genEnv = env
    /\ warned = FALSE
    /\ dbConnOpen = FALSE
    /\ handlersRegistered = FALSE
    /\ listenReturned = FALSE
    /\ sig = "none"
    /\ exitCode = -1
    /\ exitVia = "none"
    /\ failed = "none"
    /\ caught = 0
    /\ nHandled = 0
    /\ last = NoOutcome
    /\ inflight = 0
    /\ healthResponses = {}

----------------------------------------------------------------------------
(* Bootstrap *)

\* startServer() up to the first await: validation, then the generation
\* command is started
StartServer ==
    /\ pc = "not_started"
    /\ IF missingVars(env) # {}
       THEN /\ CatchTop("validate")
            /\ UNCHANGED <<bootVars, handlersRegistered, listenReturned, sig>>
       ELSE /\ pc' = "generating"
            /\ genEnv' = generationEnv(env)
            /\ called' = Append(called, "exec")
            /\ pending' = pending \cup {"exec"}
            /\ UNCHANGED <<completed, warned, dbConnOpen, procVars>>
    /\ UNCHANGED <<env, reqVars>>

\* stderr alone makes generation fail
ExecResolved_StderrFatal(stderr, ctorOk) ==
    /\ pc = "generating"
    /\ "exec" \in pending
    /\ completed' = Append(completed, "exec")
    /\ warned' = stderr
    /\ IF stderr \/ ~ctorOk
       THEN /\ CatchTop(IF stderr THEN "exec" ELSE "construct")
            /\ pending' = pending \ {"exec"}
            /\ UNCHANGED <<called, handlersRegistered, listenReturned, sig>>
       ELSE /\ pc' = "connecting"
            /\ called' = Append(called, "connect")
            /\ pending' = (pending \ {"exec"}) \cup {"connect"}
            /\ UNCHANGED procVars
    /\ UNCHANGED <<env, genEnv, dbConnOpen, reqVars>>

\* the generation command exited with status 0: warnings are logged, the
\* client is constructed and $connect is started
ExecResolved(stderr, ctorOk) ==
    /\ pc = "generating"
    /\ "exec" \in pending
    /\ completed' = Append(completed, "exec")
    /\ warned' = stderr
    /\ IF ~ctorOk
       THEN /\ CatchTop("construct")
            /\ pending' = pending \ {"exec"}
            /\ UNCHANGED <<called, handlersRegistered, listenReturned, sig>>
       ELSE /\ pc' = "connecting"
            /\ called' = Append(called, "connect")
            /\ pending' = (pending \ {"exec"}) \cup {"connect"}
            /\ UNCHANGED procVars
    /\ UNCHANGED <<env, genEnv, dbConnOpen, reqVars>>

\* the inner catch logs and swallows the error instead of rethrowing
ExecRejected_Swallowed ==
    /\ pc = "generating"
    /\ "exec" \in pending
    /\ pc' = "preparing"
    /\ failed' = "exec"
    /\ called' = Append(called, "prepare")
    /\ pending' = (pending \ {"exec"}) \cup {"prepare"}
    /\ UNCHANGED <<env, completed, genEnv, warned, dbConnOpen, handlersRegistered,
                   listenReturned, sig, exitCode, exitVia, caught, reqVars>>

\* the generation command failed: logged by generatePrismaClient, rethrown,
\* caught by startServer
ExecRejected ==
    /\ pc = "generating"
    /\ "exec" \in pending
    /\ pending' = pending \ {"exec"}
    /\ CatchTop("exec")
    /\ UNCHANGED <<env, called, completed, genEnv, warned, dbConnOpen,
                   handlersRegistered, listenReturned, sig, reqVars>>

\* $disconnect is started without being awaited: preparation starts at once
ConnectResolved_NoAwait ==
    /\ pc = "connecting"
    /\ "connect" \in pending
    /\ pc' = "preparing"
    /\ dbConnOpen' = TRUE
    /\ completed' = Append(completed, "connect")
    /\ called' = called \o <<"disconnect", "prepare">>
    /\ pending' = (pending \ {"connect"}) \cup {"disconnect", "prepare"}
    /\ UNCHANGED <<env, genEnv, warned, procVars, reqVars>>

\* $connect resolved: $disconnect is started
ConnectResolved ==
    /\ pc = "connecting"
    /\ "connect" \in pending
    /\ pc' = "disconnecting"
    /\ dbConnOpen' = TRUE
    /\ completed' = Append(completed, "connect")
    /\ called' = Append(called, "disconnect")
    /\ pending' = (pending \ {"connect"}) \cup {"disconnect"}
    /\ UNCHANGED <<env, genEnv, warned, procVars, reqVars>>

\* $connect rejected
ConnectRejected ==
    /\ pc = "connecting"
    /\ "connect" \in pending
    /\ pending' = pending \ {"connect"}
    /\ CatchTop("connect")
    /\ UNCHANGED <<env, called, completed, genEnv, warned, dbConnOpen,
                   handlersRegistered, listenReturned, sig, reqVars>>

\* $disconnect resolved: generatePrismaClient returns, app.prepare is started
DisconnectResolved ==
    /\ pc = "disconnecting"
    /\ "disconnect" \in pending
    /\ pc' = "preparing"
    /\ dbConnOpen' = FALSE
    /\ completed' = Append(completed, "disconnect")
    /\ called' = Append(called, "prepare")
    /\ pending' = (pending \ {"disconnect"}) \cup {"prepare"}
    /\ UNCHANGED <<env, genEnv, warned, procVars, reqVars>>

\* $disconnect rejected
DisconnectRejected ==
    /\ pc = "disconnecting"
    /\ "disconnect" \in pending
    /\ pending' = pending \ {"disconnect"}
    /\ CatchTop("disconnect")
    /\ UNCHANGED <<env, called, completed, genEnv, warned, dbConnOpen,
                   handlersRegistered, listenReturned, sig, reqVars>>

\* the signal handlers are registered from the listen callback
PrepareResolved_RegisterLate ==
    /\ pc = "preparing"
    /\ "prepare" \in pending
    /\ pending' = pending \ {"prepare"}
    /\ completed' = Append(completed, "prepare")
    /\ called' = Append(called, "listen")
    /\ IF listenThrows(PORT(env))
       THEN /\ CatchTop("listen")
            /\ UNCHANGED <<handlersRegistered, listenReturned, sig>>
       ELSE /\ pc' = "binding"
            /\ listenReturned' = TRUE
            /\ UNCHANGED <<handlersRegistered, sig, exitCode, exitVia, failed, caught>>
    /\ UNCHANGED <<env, genEnv, warned, dbConnOpen, reqVars>>

\* app.prepare resolved: the Express server is built, server.listen is
\* called and the signal handlers are registered
PrepareResolved ==
    /\ pc = "preparing"
    /\ "prepare" \in pending
    /\ pending' = pending \ {"prepare"}
    /\ completed' = Append(completed, "prepare")
    /\ called' = Append(called, "listen")
    /\ IF listenThrows(PORT(env))
       THEN /\ CatchTop("listen")
            /\ UNCHANGED <<handlersRegistered, listenReturned, sig>>
       ELSE /\ pc' = "binding"
            /\ listenReturned' = TRUE
            /\ handlersRegistered' = TRUE
            /\ UNCHANGED <<sig, exitCode, exitVia, failed, caught>>
    /\ UNCHANGED <<env, genEnv, warned, dbConnOpen, reqVars>>

\* app.prepare rejected
PrepareRejected ==
    /\ pc = "preparing"
    /\ "prepare" \in pending
    /\ pending' = pending \ {"prepare"}
    /\ CatchTop("prepare")
    /\ UNCHANGED <<env, called, completed, genEnv, warned, dbConnOpen,
                   handlersRegistered, listenReturned, sig, reqVars>>

\* the listener is bound: the listen callback logs "Ready"
ListenCallback ==
    /\ pc = "binding"
    /\ pc' = "serving"
    /\ UNCHANGED <<env, bootVars, procVars, reqVars>>

\* the bind failed: the server emits 'error', which has no listener, so the
\* runtime ends the process with an uncaught exception (status 1)
ListenError ==
    /\ pc = "binding"
    /\ Exit(1, "uncaught")
    /\ failed' = "bind"
    /\ UNCHANGED <<env, bootVars, handlersRegistered, listenReturned, sig, caught,
                   reqVars>>

----------------------------------------------------------------------------
(* Serving *)

Methods == {"GET", "HEAD", "POST"}
Paths == {"/api/health", "/API/Health/", "/dashboard"}
Bodies == {"none", "json", "malformed"}

\* the requests a client can send
Requests == [method : Methods, path : Paths, body : Bodies]

\* the routes in registration order: server.get('/api/health'), server.all('*')
Routes ==
    <<[verb |-> "get", path |-> "/api/health", handler |-> "health"],
      [verb |-> "all", path |-> "*", handler |-> "delegated"]>>

\* Express matches route paths case-insensitively and ignores one trailing
\* slash (the defaults of 'case sensitive routing' and 'strict routing')
normalizePath(p) ==
    CASE p = "/api/health" -> "/api/health"
      [] p = "/API/Health/" -> "/api/health"
      [] p = "/dashboard" -> "/dashboard"

\* a route registered with get() also answers HEAD; all() answers any method
routeMatches(route, r) ==
    /\ \/ route.verb = "all"
       \/ route.verb = "get" /\ r.method \in {"GET", "HEAD"}
    /\ \/ route.path = "*"
       \/ route.path = normalizePath(r.path)

\* express.json(): a body that does not parse makes the middleware call
\* next(err), which skips every route
jsonFails(r) == r.body = "malformed"

\* the first route, in registration order, that matches
firstMatch(r) ==
    LET i == CHOOSE k \in 1..Len(Routes) :
                 /\ routeMatches(Routes[k], r)
                 /\ \A j \in 1..(k - 1) : ~routeMatches(Routes[j], r)
    IN Routes[i].handler

\* which handler a request ends at, after compression() and express.json()
dispatch(r) == IF jsonFails(r) THEN "error" ELSE firstMatch(r)

\* the document res.json sends from the health handler
healthBody(e) ==
    [status |-> "healthy",
     nodeEnv |-> e.NODE_ENV,
     hasDbConnection |-> ~Falsy(e.DATABASE_URL)]

\* one request through the Express pipeline of the server
HandleRequest(r) ==
    /\ pc = "serving"
    /\ nHandled < MaxRequests
    /\ nHandled' = nHandled + 1
    /\ LET h == dispatch(r) IN
       /\ last' = [req |-> r,
                   handler |-> h,
                   seenMethod |-> IF h = "delegated" THEN r.method ELSE "",
                   seenPath |-> IF h = "delegated" THEN r.path ELSE "",
                   middleware |-> <<"compression", "json">>]
       /\ inflight' = IF h = "delegated" THEN inflight + 1 ELSE inflight
       /\ healthResponses' = IF h = "health"
                             THEN healthResponses \cup {healthBody(env)}
                             ELSE healthResponses
    /\ UNCHANGED <<env, pc, bootVars, procVars>>

\* the framework handler finishes a delegated request
DelegatedDone ==
    /\ pc = "serving"
    /\ inflight > 0
    /\ inflight' = inflight - 1
    /\ UNCHANGED <<env, pc, bootVars, procVars, nHandled, last, healthResponses>>

----------------------------------------------------------------------------
(* Signals *)

Signals == {"SIGTERM", "SIGINT"}

signum(s) == IF s = "SIGTERM" THEN 15 ELSE 2

\* a shutdown that waits for the delegated requests in flight
shutdown_Drain ==
    IF inflight > 0
    THEN UNCHANGED <<pc, exitCode, exitVia>>
    ELSE Exit(0, "shutdown")

\* const shutdown = async () => { console.log(...); process.exit(0) }
shutdown == Exit(0, "shutdown")

\* SIGTERM or SIGINT reaches the process: the registered handler runs, or,
\* with no handler registered, the default disposition ends the process
Signal(s) ==
    /\ pc # "terminated"
    /\ sig' = s
    /\ IF handlersRegistered
       THEN shutdown
       ELSE Exit(128 + signum(s), "signal")
    /\ UNCHANGED <<env, bootVars, handlersRegistered, listenReturned, failed, caught,
                   reqVars>>

----------------------------------------------------------------------------

Next ==
    \/ StartServer
    \/ \E stderr \in BOOLEAN, ctorOk \in BOOLEAN : ExecResolved(stderr, ctorOk)
    \/ ExecRejected
    \/ ConnectResolved
    \/ ConnectRejected
    \/ DisconnectResolved
    \/ DisconnectRejected
    \/ PrepareResolved
    \/ PrepareRejected
    \/ ListenCallback
    \/ ListenError
    \/ \E r \in Requests : HandleRequest(r)
    \/ DelegatedDone
    \/ \E s \in Signals : Signal(s)

Spec == Init /\ [][Next]_vars

----------------------------------------------------------------------------
(* Properties *)

Range(s) == {s[i] : i \in 1..Len(s)}

Count(s, x) == Cardinality({i \in 1..Len(s) : s[i] = x})

BothUrlsSet == ~Falsy(env.DATABASE_URL) /\ ~Falsy(env.DIRECT_URL)

\* C1: with both URLs set, once the generation command, the connect call or
\* the disconnect call has failed, the process has exited with status 1 and
\* neither app.prepare nor server.listen has been called.
C1_FailureExitsBeforeServing ==
    (BothUrlsSet /\ failed \in {"exec", "connect", "disconnect"}) =>
        /\ pc = "terminated"
        /\ exitCode = 1
        /\ "prepare" \notin Range(called)
        /\ "listen" \notin Range(called)

C1_Witness ==
    /\ BothUrlsSet
    /\ failed \in {"exec", "connect", "disconnect"}
    /\ pc = "terminated"

\* C2: with DATABASE_URL or DIRECT_URL absent or empty, the generation
\* command is never invoked, no database connection is opened, and once
\* validation has run the process has exited with status 1.
C2_MissingUrlFailsValidation ==
    ~BothUrlsSet =>
        /\ "exec" \notin Range(called)
        /\ "connect" \notin Range(called)
        /\ ~dbConnOpen
        /\ (pc # "not_started" /\ sig = "none") =>
               (pc = "terminated" /\ exitCode = 1 /\ failed = "validate")

C2_Witness ==
    /\ Falsy(env.DIRECT_URL)
    /\ ~Falsy(env.DATABASE_URL)
    /\ failed = "validate"
    /\ exitCode = 1

\* C3: once server.listen has returned, a SIGTERM or SIGINT ends the process
\* with exit code 0 in the step that delivers it, and no request is processed
\* or finished after a signal has been delivered.
C3_SignalStopsServing ==
    [][/\ (listenReturned /\ sig' # sig) =>
              (pc' = "terminated" /\ exitCode' = 0 /\ exitVia' = "shutdown")
       /\ (listenReturned /\ sig # "none") => UNCHANGED reqVars]_vars

C3_Witness ==
    /\ sig # "none"
    /\ exitVia = "shutdown"
    /\ exitCode = 0
    /\ inflight > 0

\* C4: every request is handled by exactly one route class: GET /api/health
\* by the health handler, every other request by the delegated handler with
\* its method and path preserved, after compression and JSON parsing ran.
C4_EveryRequestRouted ==
    nHandled > 0 =>
        IF last.req.method = "GET" /\ last.req.path = "/api/health"
        THEN last.handler = "health"
        ELSE /\ last.handler = "delegated"
             /\ last.seenMethod = last.req.method
             /\ last.seenPath = last.req.path
             /\ last.middleware = <<"compression", "json">>

\* C5: every bootstrap error is caught by the catch block of startServer,
\* exactly once, and followed by exit status 1; no step is invoked more than
\* once and no request is served.
C5_EveryErrorCaughtAtTop ==
    failed # "none" =>
        /\ pc = "terminated"
        /\ exitCode = 1
        /\ exitVia = "catch"
        /\ caught = 1
        /\ \A step \in Range(called) : Count(called, step) = 1
        /\ nHandled = 0

\* C6: when the generation command resolves with a non-empty standard error
\* stream, generation is not the step that failed: the client is verified
\* next, and the process only ends on a later step's failure or a signal.
C6_StderrNotFatal ==
    warned =>
        /\ failed # "exec"
        /\ "connect" \in Range(called) \/ failed = "construct"
        /\ (failed = "none" /\ sig = "none") => pc # "terminated"
        /\ pc = "terminated" =>
               \/ sig # "none"
               \/ failed \in {"construct", "connect", "disconnect", "prepare",
                              "listen", "bind"}

C6_Witness == warned /\ pc = "serving"

\* C7 as claimed: the environment handed to the generation command has the
\* engine type 'binary' and NODE_ENV 'production' whatever NODE_ENV was
\* configured, every other key unchanged.
C7_NodeEnvForced ==
    "exec" \in Range(called) =>
        /\ genEnv.PRISMA_CLIENT_ENGINE_TYPE = "binary"
        /\ genEnv.NODE_ENV = "production"
        /\ \A k \in PassThroughKeys : genEnv[k] = env[k]

\* C7 as amended: the engine type is forced to 'binary'; NODE_ENV is
\* 'production' only when it was unset or empty and is otherwise passed
\* through as configured; every other key is unchanged.
C7_NodeEnvDefaulted ==
    "exec" \in Range(called) =>
        /\ genEnv.PRISMA_CLIENT_ENGINE_TYPE = "binary"
        /\ Falsy(env.NODE_ENV) => genEnv.NODE_ENV = "production"
        /\ ~Falsy(env.NODE_ENV) => genEnv.NODE_ENV = env.NODE_ENV
        /\ \A k \in PassThroughKeys : genEnv[k] = env[k]

C7_Witness ==
    /\ "exec" \in Range(called)
    /\ env.NODE_ENV = "development"
    /\ env.PRISMA_CLIENT_ENGINE_TYPE = "library"
    /\ genEnv.NODE_ENV = "development"

\* C8: every body the health handler has sent reports status 'healthy' and
\* hasDbConnection true.
C8_HealthReportsDb ==
    \A b \in healthResponses : b.status = "healthy" /\ b.hasDbConnection

C8_Witness == healthResponses # {}

BootOrder == <<"exec", "connect", "disconnect", "prepare", "listen">>

\* C9: the bootstrap steps are invoked in the order exec, connect,
\* disconnect, prepare, listen; a step is invoked only after every earlier
\* one resolved; at most one is in flight; the verification connection is
\* closed before app.prepare is called; the lifecycle never moves backwards.
C9_StrictOrder ==
    /\ [](/\ Cardinality(pending) <= 1
          /\ Len(called) <= Len(BootOrder)
          /\ called = SubSeq(BootOrder, 1, Len(called))
          /\ Len(completed) <= Len(called)
          /\ Len(completed) >= Len(called) - 1
          /\ completed = SubSeq(called, 1, Len(completed))
          /\ "prepare" \in Range(called) => ~dbConnOpen)
    /\ [][Rank(pc') >= Rank(pc)]_vars

C9_Witness == pc = "serving" /\ called = BootOrder

\* C10 as claimed: the shutdown handlers are registered exactly when
\* server.listen has been called; no request is handled while they are not
\* registered; the handler path (exit 0) is never taken before listen or
\* after a bootstrap failure.
C10_RegisteredIffListenCalled ==
    /\ handlersRegistered <=> "listen" \in Range(called)
    /\ nHandled > 0 => handlersRegistered
    /\ exitVia = "shutdown" => ("listen" \in Range(called) /\ failed = "none")

\* C10 as amended: the shutdown handlers are registered exactly when
\* server.listen has been called and did not throw; no request is handled
\* while they are not registered; the handler path (exit 0) is never taken
\* before listen or after a bootstrap failure.
C10_RegisteredIffListenReturned ==
    /\ handlersRegistered <=> ("listen" \in Range(called) /\ failed # "listen")
    /\ nHandled > 0 => handlersRegistered
    /\ exitVia = "shutdown" => ("listen" \in Range(called) /\ failed = "none")

C10_Witness ==
    /\ pc = "terminated"
    /\ failed = "listen"
    /\ "listen" \in Range(called)
    /\ ~handlersRegistered

====
